---- MODULE Spec2Model ----
(***************************************************************************)
(* Kone Webhook Receiver (src/main.py): a Flask application that keeps the *)
(* latest webhook and a history of the last MAX_HISTORY webhooks in two    *)
(* module-level objects, latest_webhook_data and event_history.            *)
(*                                                                         *)
(* The handler of POST /webhook is modelled statement by statement: every  *)
(* access to the two shared objects is one step, so that the handlers of   *)
(* requests served by different threads can interleave.  The statements    *)
(* that only touch the request and its locals (parsing, logging, building  *)
(* the response) are folded into the neighbouring step.                    *)
(*                                                                         *)
(*   Spec          requests are handled one at a time                      *)
(*   SpecThreaded  up to NumSlots requests are handled at the same time    *)
(***************************************************************************)
EXTENDS Integers, Sequences, FiniteSets, TLC

\* ------------------------------------------------------------------ bounds
\* Distinct events the upstream provider delivers (event ids 1..MaxEvents).
MaxEvents == 12
\* Deliveries that repeat the body of the delivery before them.
MaxRedeliveries == 1
\* Readings of the local clock run from 0 to MaxClock.
MaxClock == 1
\* Clock readings per second (datetime counts 10^6 of them).
TicksPerSecond == 2
\* Requests the server handles at the same time under SpecThreaded.
NumSlots == 2
\* Requests taken up while another request is in hand, under SpecThreaded.
MaxOverlaps == 1

\* --------------------------------------------------------------- constants
MAX_HISTORY == 10

VARIABLES
    latest_webhook_data,  \* the module-level dict: last_event, timestamp, event_count
    event_history,        \* the module-level list of {timestamp, data}
    clock,                \* the local clock datetime.now() reads
    pc,                   \* per slot: the statement of kone_webhook about to run
    request,              \* per slot: the body of the request in hand
    data,                 \* per slot: the local `data`
    timestamp,            \* per slot: the local `timestamp`
    loaded_count,         \* per slot: event_count as read by the `+= 1`
    exc,                  \* per slot: the exception the handler caught
    reply,                \* the HTTP response the last step sent, if any
    log_file_error,       \* the last step logged "Could not write to log file"
    accepted,             \* history variable: the webhooks answered 200, in order
    traffic               \* history variable: what the provider has delivered

vars == <<latest_webhook_data, event_history, clock, pc, request, data, timestamp,
          loaded_count, exc, reply, log_file_error, accepted, traffic>>

shared == <<latest_webhook_data, event_history>>
locals == <<pc, request, data, timestamp, loaded_count, exc>>

Slots == 1..NumSlots

\* ------------------------------------------------------------ Python values
None == [kind |-> "null"]
Str(s) == [kind |-> "str", text |-> s]
Object(id) == [kind |-> "object", equipmentId |-> id]

\* datetime.isoformat(): the fraction is left out when it is zero.
IsoFormat(c) ==
    IF c % TicksPerSecond = 0
    THEN Str(<<c \div TicksPerSecond>>)
    ELSE Str(<<c \div TicksPerSecond, c % TicksPerSecond>>)

\* ------------------------------------------------------------ request bodies
Unparseable == [json |-> FALSE]
Json(v) == [json |-> TRUE, value |-> v]

NoRequest == [json |-> FALSE, none |-> TRUE]

RejectedBodies ==
    {Unparseable, Json(None), Json([kind |-> "array"]),
     Json([kind |-> "string"]), Json([kind |-> "number"])}

\* What the provider may deliver next: the next event, the last event again,
\* or a body that is no JSON object.
NextEvent == IF traffic.sent < MaxEvents THEN {Json(Object(traffic.sent + 1))} ELSE {}
Redelivery ==
    IF traffic.sent > 0 /\ traffic.redelivered < MaxRedeliveries
    THEN {Json(Object(traffic.sent))}
    ELSE {}
NextBodies == NextEvent \cup Redelivery \cup RejectedBodies

Busy == \E t \in Slots : pc[t] # "idle"

Delivered(body) ==
    [sent |-> IF body \in NextEvent THEN traffic.sent + 1 ELSE traffic.sent,
     redelivered |-> IF body \in Redelivery \ NextEvent
                     THEN traffic.redelivered + 1
                     ELSE traffic.redelivered,
     overlapped |-> IF Busy THEN traffic.overlapped + 1 ELSE traffic.overlapped]

\* ---------------------------------------------------------------- responses
NoReply == [op |-> "none", code |-> 0]
Response(op, code, body) == [op |-> op, code |-> code, body |-> body]

Init ==
    /\ latest_webhook_data = [last_event |-> None, timestamp |-> None, event_count |-> 0]
    /\ event_history = <<>>
    /\ clock = 0
    /\ pc = [t \in Slots |-> "idle"]
    /\ request = [t \in Slots |-> NoRequest]
    /\ data = [t \in Slots |-> None]
    /\ timestamp = [t \in Slots |-> None]
    /\ loaded_count = [t \in Slots |-> 0]
    /\ exc = [t \in Slots |-> "none"]
    /\ reply = NoReply
    /\ log_file_error = FALSE
    /\ accepted = <<>>
    /\ traffic = [sent |-> 0, redelivered |-> 0, overlapped |-> 0]

\* datetime.now(): since it was read last, the local clock has stayed or has
\* moved on by one.
Now == {c \in {clock, clock + 1} : c <= MaxClock}

\* ------------------------------------------------------------ POST /webhook
\* Receive as it would be with line 78 moved up to line 59: the payload is
\* stored before data.get(...) has looked at it.
ReceiveStoringFirst(t, body) ==
    /\ pc[t] = "idle"
    /\ request' = [request EXCEPT ![t] = body]
    /\ traffic' = Delivered(body)
    /\ IF ~body.json
       THEN /\ pc' = [pc EXCEPT ![t] = "except"]
            /\ exc' = [exc EXCEPT ![t] = "BadRequest"]
            /\ UNCHANGED <<data, timestamp, clock, latest_webhook_data>>
       ELSE /\ data' = [data EXCEPT ![t] = body.value]
            /\ latest_webhook_data' =
                   [latest_webhook_data EXCEPT !.last_event = body.value]
            /\ clock' \in Now
            /\ timestamp' = [timestamp EXCEPT ![t] = IsoFormat(clock')]
            /\ IF body.value.kind # "object"
               THEN /\ pc' = [pc EXCEPT ![t] = "except"]
                    /\ exc' = [exc EXCEPT ![t] = "AttributeError"]
               ELSE /\ pc' = [pc EXCEPT ![t] = "store_last_event"]
                    /\ exc' = exc
    /\ reply' = NoReply
    /\ log_file_error' = FALSE
    /\ UNCHANGED <<event_history, loaded_count, accepted>>

\* Lines 56-75: request.json, datetime.now().isoformat(), data.get(...) for
\* the log lines, json.dumps(data).  request.json raises on a body that is
\* no JSON; data.get raises on None and on any JSON value that is no object.
Receive(t, body) ==
    /\ pc[t] = "idle"
    /\ request' = [request EXCEPT ![t] = body]
    /\ traffic' = Delivered(body)
    /\ IF ~body.json
       THEN /\ pc' = [pc EXCEPT ![t] = "except"]
            /\ exc' = [exc EXCEPT ![t] = "BadRequest"]
            /\ UNCHANGED <<data, timestamp, clock>>
       ELSE /\ data' = [data EXCEPT ![t] = body.value]
            /\ clock' \in Now
            /\ timestamp' = [timestamp EXCEPT ![t] = IsoFormat(clock')]
            /\ IF body.value.kind # "object"
               THEN /\ pc' = [pc EXCEPT ![t] = "except"]
                    /\ exc' = [exc EXCEPT ![t] = "AttributeError"]
               ELSE /\ pc' = [pc EXCEPT ![t] = "store_last_event"]
                    /\ exc' = exc
    /\ reply' = NoReply
    /\ log_file_error' = FALSE
    /\ UNCHANGED <<shared, loaded_count, accepted>>

\* Line 78.
StoreLastEvent(t) ==
    /\ pc[t] = "store_last_event"
    /\ latest_webhook_data' = [latest_webhook_data EXCEPT !.last_event = data[t]]
    /\ pc' = [pc EXCEPT ![t] = "store_timestamp"]
    /\ reply' = NoReply
    /\ log_file_error' = FALSE
    /\ UNCHANGED <<event_history, clock, request, data, timestamp, loaded_count, exc,
                   accepted, traffic>>

\* StoreTimestamp as it would be if the timestamp were set only while unset.
StoreTimestampOnce(t) ==
    /\ pc[t] = "store_timestamp"
    /\ latest_webhook_data' =
           IF latest_webhook_data.timestamp = None
           THEN [latest_webhook_data EXCEPT !.timestamp = timestamp[t]]
           ELSE latest_webhook_data
    /\ pc' = [pc EXCEPT ![t] = "load_event_count"]
    /\ reply' = NoReply
    /\ log_file_error' = FALSE
    /\ UNCHANGED <<event_history, clock, request, data, timestamp, loaded_count, exc,
                   accepted, traffic>>

\* Line 79.
StoreTimestamp(t) ==
    /\ pc[t] = "store_timestamp"
    /\ latest_webhook_data' = [latest_webhook_data EXCEPT !.timestamp = timestamp[t]]
    /\ pc' = [pc EXCEPT ![t] = "load_event_count"]
    /\ reply' = NoReply
    /\ log_file_error' = FALSE
    /\ UNCHANGED <<event_history, clock, request, data, timestamp, loaded_count, exc,
                   accepted, traffic>>

\* Line 80, the read of `latest_webhook_data['event_count'] += 1`.
LoadEventCount(t) ==
    /\ pc[t] = "load_event_count"
    /\ loaded_count' = [loaded_count EXCEPT ![t] = latest_webhook_data.event_count]
    /\ pc' = [pc EXCEPT ![t] = "store_event_count"]
    /\ reply' = NoReply
    /\ log_file_error' = FALSE
    /\ UNCHANGED <<shared, clock, request, data, timestamp, exc, accepted, traffic>>

\* StoreEventCount as it would be with `= event_count` for `+= 1`.
StoreEventCountNoAdd(t) ==
    /\ pc[t] = "store_event_count"
    /\ latest_webhook_data' =
           [latest_webhook_data EXCEPT !.event_count = loaded_count[t]]
    /\ pc' = [pc EXCEPT ![t] = "append"]
    /\ reply' = NoReply
    /\ log_file_error' = FALSE
    /\ UNCHANGED <<event_history, clock, request, data, timestamp, loaded_count, exc,
                   accepted, traffic>>

\* Line 80, the add and the write.
StoreEventCount(t) ==
    /\ pc[t] = "store_event_count"
    /\ latest_webhook_data' =
           [latest_webhook_data EXCEPT !.event_count = loaded_count[t] + 1]
    /\ pc' = [pc EXCEPT ![t] = "append"]
    /\ reply' = NoReply
    /\ log_file_error' = FALSE
    /\ UNCHANGED <<event_history, clock, request, data, timestamp, loaded_count, exc,
                   accepted, traffic>>

\* AppendHistory as it would be if a payload equal to the newest entry's were
\* taken for a redelivery and skipped.
AppendHistoryDedup(t) ==
    /\ pc[t] = "append"
    /\ event_history' =
           IF event_history # <<>> /\ event_history[Len(event_history)].data = data[t]
           THEN event_history
           ELSE Append(event_history, [timestamp |-> timestamp[t], data |-> data[t]])
    /\ pc' = [pc EXCEPT ![t] = "check_length"]
    /\ reply' = NoReply
    /\ log_file_error' = FALSE
    /\ UNCHANGED <<latest_webhook_data, clock, request, data, timestamp, loaded_count, exc,
                   accepted, traffic>>

\* AppendHistory as it would be with insert(0, ...) for append(...).
AppendHistoryAtFront(t) ==
    /\ pc[t] = "append"
    /\ event_history' =
           <<[timestamp |-> timestamp[t], data |-> data[t]]>> \o event_history
    /\ pc' = [pc EXCEPT ![t] = "check_length"]
    /\ reply' = NoReply
    /\ log_file_error' = FALSE
    /\ UNCHANGED <<latest_webhook_data, clock, request, data, timestamp, loaded_count, exc,
                   accepted, traffic>>

\* Lines 83-86.
AppendHistory(t) ==
    /\ pc[t] = "append"
    /\ event_history' =
           Append(event_history, [timestamp |-> timestamp[t], data |-> data[t]])
    /\ pc' = [pc EXCEPT ![t] = "check_length"]
    /\ reply' = NoReply
    /\ log_file_error' = FALSE
    /\ UNCHANGED <<latest_webhook_data, clock, request, data, timestamp, loaded_count, exc,
                   accepted, traffic>>

\* CheckLength as it would be with `== MAX_HISTORY + 1` for `> MAX_HISTORY`.
CheckLengthEquals(t) ==
    /\ pc[t] = "check_length"
    /\ pc' = [pc EXCEPT ![t] =
                 IF Len(event_history) = MAX_HISTORY + 1 THEN "pop" ELSE "acknowledge"]
    /\ reply' = NoReply
    /\ log_file_error' = FALSE
    /\ UNCHANGED <<shared, clock, request, data, timestamp, loaded_count, exc,
                   accepted, traffic>>

\* Line 87.
CheckLength(t) ==
    /\ pc[t] = "check_length"
    /\ pc' = [pc EXCEPT ![t] =
                 IF Len(event_history) > MAX_HISTORY THEN "pop" ELSE "acknowledge"]
    /\ reply' = NoReply
    /\ log_file_error' = FALSE
    /\ UNCHANGED <<shared, clock, request, data, timestamp, loaded_count, exc,
                   accepted, traffic>>

\* PopOldest as it would be with pop() for pop(0).
PopNewest(t) ==
    /\ pc[t] = "pop"
    /\ event_history # <<>>
    /\ event_history' = SubSeq(event_history, 1, Len(event_history) - 1)
    /\ pc' = [pc EXCEPT ![t] = "acknowledge"]
    /\ reply' = NoReply
    /\ log_file_error' = FALSE
    /\ UNCHANGED <<latest_webhook_data, clock, request, data, timestamp, loaded_count, exc,
                   accepted, traffic>>

\* Line 88: event_history.pop(0).
PopOldest(t) ==
    /\ pc[t] = "pop"
    /\ event_history # <<>>
    /\ event_history' = Tail(event_history)
    /\ pc' = [pc EXCEPT ![t] = "acknowledge"]
    /\ reply' = NoReply
    /\ log_file_error' = FALSE
    /\ UNCHANGED <<latest_webhook_data, clock, request, data, timestamp, loaded_count, exc,
                   accepted, traffic>>

\* Acknowledge as it would be without the inner try: the failed append to
\* the log file reaches the outer handler, which answers 500.
AcknowledgeUnlessLogFails(t) ==
    /\ pc[t] = "acknowledge"
    /\ \E written \in BOOLEAN :
          /\ log_file_error' = ~written
          /\ IF written
             THEN /\ reply' = Response("webhook", 200,
                                       [status |-> "success",
                                        message |-> "Webhook received and processed",
                                        timestamp |-> timestamp[t]])
                  /\ accepted' = Append(accepted,
                                        [timestamp |-> timestamp[t], data |-> data[t]])
             ELSE /\ reply' = Response("webhook", 500,
                                       [status |-> "error", message |-> "OSError"])
                  /\ accepted' = accepted
    /\ pc' = [pc EXCEPT ![t] = "idle"]
    /\ request' = [request EXCEPT ![t] = NoRequest]
    /\ data' = [data EXCEPT ![t] = None]
    /\ timestamp' = [timestamp EXCEPT ![t] = None]
    /\ loaded_count' = [loaded_count EXCEPT ![t] = 0]
    /\ UNCHANGED <<shared, clock, exc, traffic>>

\* Lines 93-108: the append to webhook_events.log succeeds or raises; the
\* inner try catches and warns; the handler answers 200.
Acknowledge(t) ==
    /\ pc[t] = "acknowledge"
    /\ \E written \in BOOLEAN : log_file_error' = ~written
    /\ reply' = Response("webhook", 200,
                         [status |-> "success",
                          message |-> "Webhook received and processed",
                          timestamp |-> timestamp[t]])
    /\ accepted' = Append(accepted, [timestamp |-> timestamp[t], data |-> data[t]])
    /\ pc' = [pc EXCEPT ![t] = "idle"]
    /\ request' = [request EXCEPT ![t] = NoRequest]
    /\ data' = [data EXCEPT ![t] = None]
    /\ timestamp' = [timestamp EXCEPT ![t] = None]
    /\ loaded_count' = [loaded_count EXCEPT ![t] = 0]
    /\ UNCHANGED <<shared, clock, exc, traffic>>

\* RespondError as it would be answering 400.
RespondBadRequest(t) ==
    /\ pc[t] = "except"
    /\ reply' = Response("webhook", 400, [status |-> "error", message |-> exc[t]])
    /\ log_file_error' = FALSE
    /\ pc' = [pc EXCEPT ![t] = "idle"]
    /\ exc' = [exc EXCEPT ![t] = "none"]
    /\ request' = [request EXCEPT ![t] = NoRequest]
    /\ data' = [data EXCEPT ![t] = None]
    /\ timestamp' = [timestamp EXCEPT ![t] = None]
    /\ UNCHANGED <<shared, clock, loaded_count, accepted, traffic>>

\* RespondError as it would be with `raise` for the return: the handler ends
\* without a response of its own.
RespondErrorRaising(t) ==
    /\ pc[t] = "except"
    /\ reply' = NoReply
    /\ log_file_error' = FALSE
    /\ pc' = [pc EXCEPT ![t] = "idle"]
    /\ exc' = [exc EXCEPT ![t] = "none"]
    /\ request' = [request EXCEPT ![t] = NoRequest]
    /\ data' = [data EXCEPT ![t] = None]
    /\ timestamp' = [timestamp EXCEPT ![t] = None]
    /\ UNCHANGED <<shared, clock, loaded_count, accepted, traffic>>

\* Lines 110-118.
RespondError(t) ==
    /\ pc[t] = "except"
    /\ reply' = Response("webhook", 500, [status |-> "error", message |-> exc[t]])
    /\ log_file_error' = FALSE
    /\ pc' = [pc EXCEPT ![t] = "idle"]
    /\ exc' = [exc EXCEPT ![t] = "none"]
    /\ request' = [request EXCEPT ![t] = NoRequest]
    /\ data' = [data EXCEPT ![t] = None]
    /\ timestamp' = [timestamp EXCEPT ![t] = None]
    /\ UNCHANGED <<shared, clock, loaded_count, accepted, traffic>>

\* ------------------------------------------------------------------- reads
\* Lines 30-47.
home ==
    /\ reply' = Response("home", 200,
                         [service |-> "Kone Webhook Receiver", status |-> "running"])
    /\ log_file_error' = FALSE
    /\ UNCHANGED <<shared, clock, locals, accepted, traffic>>

\* Lines 127-137: what GET /status answers in the current state.
StatusResponse ==
    IF latest_webhook_data.last_event = None
    THEN Response("status", 200,
                  [message |-> "No webhooks received yet",
                   event_count |-> latest_webhook_data.event_count])
    ELSE Response("status", 200,
                  [latest_event |-> latest_webhook_data.last_event,
                   timestamp |-> latest_webhook_data.timestamp,
                   total_events_received |-> latest_webhook_data.event_count])

\* Lines 121-137.
get_status ==
    /\ reply' = StatusResponse
    /\ log_file_error' = FALSE
    /\ UNCHANGED <<shared, clock, locals, accepted, traffic>>

\* Lines 145-148: what GET /history answers in the current state.
HistoryResponse ==
    Response("history", 200,
             [total_events |-> Len(event_history), events |-> event_history])

\* get_history as it would be if it handed the events out and emptied the list.
get_history_draining ==
    /\ reply' = HistoryResponse
    /\ event_history' = <<>>
    /\ log_file_error' = FALSE
    /\ UNCHANGED <<latest_webhook_data, clock, locals, accepted, traffic>>

\* Lines 140-148.
get_history ==
    /\ reply' = HistoryResponse
    /\ log_file_error' = FALSE
    /\ UNCHANGED <<shared, clock, locals, accepted, traffic>>

\* health_check as it would be if it reported the service unhealthy until a
\* webhook has been stored.
health_check_needing_events ==
    /\ clock' \in Now
    /\ reply' = IF latest_webhook_data.last_event = None
                THEN Response("health", 503,
                              [status |-> "unhealthy",
                               timestamp |-> IsoFormat(clock'),
                               uptime_check |-> "OK"])
                ELSE Response("health", 200,
                              [status |-> "healthy",
                               timestamp |-> IsoFormat(clock'),
                               uptime_check |-> "OK"])
    /\ log_file_error' = FALSE
    /\ UNCHANGED <<shared, locals, accepted, traffic>>

\* Lines 151-161.
health_check ==
    /\ clock' \in Now
    /\ reply' = Response("health", 200,
                         [status |-> "healthy",
                          timestamp |-> IsoFormat(clock'),
                          uptime_check |-> "OK"])
    /\ log_file_error' = FALSE
    /\ UNCHANGED <<shared, locals, accepted, traffic>>

\* ------------------------------------------------------------ specifications
Idle == ~Busy

Read ==
    \/ home
    \/ get_status
    \/ get_history
    \/ health_check

Handle(t) ==
    \/ StoreLastEvent(t)
    \/ StoreTimestamp(t)
    \/ LoadEventCount(t)
    \/ StoreEventCount(t)
    \/ AppendHistory(t)
    \/ CheckLength(t)
    \/ PopOldest(t)
    \/ Acknowledge(t)
    \/ RespondError(t)

\* One request at a time: a request, a read too, is taken up only when none
\* is in hand.
Deliver == Idle /\ \E body \in NextBodies : Receive(1, body)
ReadAtRest == Idle /\ Read

Next ==
    \/ Deliver
    \/ Handle(1)
    \/ ReadAtRest

Spec == Init /\ [][Next]_vars

\* The handler has no loop and waits for nothing but the log file: a request
\* in hand is run to its response.  Each event is delivered once here.
DeliverOnce == Idle /\ \E body \in NextEvent \cup RejectedBodies : Receive(1, body)

NextOnce ==
    \/ DeliverOnce
    \/ Handle(1)
    \/ ReadAtRest

SpecFair == Init /\ [][NextOnce]_vars /\ WF_vars(Handle(1))

\* A thread per request: a request is taken up by the first free slot, the
\* statements of the requests in hand interleave and reads are answered in
\* between.  The provider delivers each event once here.
FirstFree(t) == pc[t] = "idle" /\ \A u \in 1..(t - 1) : pc[u] # "idle"

DeliverThreaded ==
    /\ Idle \/ traffic.overlapped < MaxOverlaps
    /\ \E t \in Slots : FirstFree(t) /\ \E body \in NextEvent \cup RejectedBodies : Receive(t, body)

NextThreaded ==
    \/ DeliverThreaded
    \/ \E t \in Slots : Handle(t)
    \/ Read

SpecThreaded == Init /\ [][NextThreaded]_vars

\* ------------------------------------------------------------------ claims
Min(a, b) == IF a < b THEN a ELSE b

\* The last n elements of s.
LastN(s, n) == SubSeq(s, Len(s) - n + 1, Len(s))

Payloads(s) == [i \in 1..Len(s) |-> s[i].data]

\* The order of the ISO-8601 strings, character by character.
TextLeq(a, b) ==
    \/ a.text[1] < b.text[1]
    \/ /\ a.text[1] = b.text[1]
       /\ \/ Len(a.text) = 1
          \/ Len(b.text) = 2 /\ a.text[2] <= b.text[2]

Answered200 == reply.op = "webhook" /\ reply.code = 200
Answered500 == reply.op = "webhook" /\ reply.code = 500

\* C1: with requests handled one at a time, after N webhooks answered 200
\* GET /history reports total_events = min(N, 10) and the payloads of the
\* last min(N, 10) accepted webhooks, oldest first.
C1_BoundedFifoHistory ==
    reply.op = "history" =>
        /\ reply.body.total_events = Min(Len(accepted), 10)
        /\ Len(reply.body.events) = reply.body.total_events
        /\ Payloads(reply.body.events)
               = Payloads(LastN(accepted, Min(Len(accepted), 10)))

\* After 12 accepted webhooks the history starts at the 3rd.
C1_Witness ==
    /\ reply.op = "history"
    /\ Len(accepted) = 12
    /\ reply.body.total_events = 10
    /\ reply.body.events[1].data = accepted[3].data
    /\ reply.body.events[1].data # accepted[1].data

\* C2: the History Queue never holds more than 10 entries, in no state, also
\* while webhooks are being handled, and GET /history never reports more.
C2_HistoryNeverExceedsTen ==
    /\ Len(event_history) <= 10
    /\ reply.op = "history" => reply.body.total_events <= 10

\* C3: with requests handled one at a time, the event_count GET /status
\* reports is the number of webhooks answered 200 so far; it starts at 0,
\* rises by exactly 1 with each of them and never falls.
C3_CounterExact ==
    /\ [](/\ Idle => latest_webhook_data.event_count = Len(accepted)
          /\ reply.op = "status" =>
                IF Len(accepted) = 0
                THEN reply.body.event_count = 0
                ELSE reply.body.total_events_received = Len(accepted))
    /\ [][/\ latest_webhook_data'.event_count
                 \in {latest_webhook_data.event_count,
                      latest_webhook_data.event_count + 1}
          /\ (Idle /\ Answered200)' /\ Len(accepted') = Len(accepted) + 1 =>
                 latest_webhook_data'.event_count = Len(accepted) + 1]_vars

C3_Witness ==
    /\ reply.op = "status"
    /\ Len(accepted) = 3
    /\ reply.body.total_events_received = 3

\* C4: with requests handled one at a time and at least one webhook answered
\* 200, GET /status reports the payload of the last of them and the timestamp
\* its 200 response carried, which is no earlier than the timestamp of any
\* webhook before it.
C4_LatestReflectsLast ==
    reply.op = "status" /\ Len(accepted) >= 1 =>
        /\ DOMAIN reply.body = {"latest_event", "timestamp", "total_events_received"}
        /\ reply.body.latest_event = accepted[Len(accepted)].data
        /\ reply.body.timestamp = accepted[Len(accepted)].timestamp
        /\ \A i \in 1..Len(accepted) : TextLeq(accepted[i].timestamp, reply.body.timestamp)

\* Payload B after payload A, at a later clock reading.
C4_Witness ==
    /\ reply.op = "status"
    /\ Len(accepted) = 2
    /\ reply.body.latest_event = Object(2)
    /\ accepted[1].data = Object(1)
    /\ reply.body.timestamp # accepted[1].timestamp

\* C5: a POST /webhook whose body is no JSON is answered 500 with status
\* "error", never 200 and never 4xx, and event_count is not incremented by it.
C5_MalformedBody ==
    /\ [](\A t \in Slots : request[t] = Unparseable => pc[t] = "except")
    /\ [][\A t \in Slots :
             request[t] = Unparseable =>
                 /\ latest_webhook_data'.event_count = latest_webhook_data.event_count
                 /\ request'[t] # request[t] =>
                        /\ reply'.op = "webhook"
                        /\ reply'.code = 500
                        /\ reply'.body.status = "error"]_vars

C5_Witness ==
    /\ Answered500
    /\ reply.body.message = "BadRequest"
    /\ latest_webhook_data.event_count = 2

\* C6: as long as no webhook was answered 200, whatever the failed webhooks
\* and the reads before, GET /status answers "No webhooks received yet" with
\* event_count 0 and GET /history answers total_events 0 and no events.
C6_EmptyState ==
    accepted = <<>> =>
        /\ Idle =>
             /\ StatusResponse.body =
                    [message |-> "No webhooks received yet", event_count |-> 0]
             /\ HistoryResponse.body = [total_events |-> 0, events |-> <<>>]
             /\ StatusResponse.code = 200 /\ HistoryResponse.code = 200
        /\ reply.op = "status" =>
               reply.body = [message |-> "No webhooks received yet", event_count |-> 0]
        /\ reply.op = "history" => reply.body = [total_events |-> 0, events |-> <<>>]

\* A webhook has just failed and none has succeeded.
C6_Witness ==
    /\ accepted = <<>>
    /\ Answered500
    /\ reply.body.message = "AttributeError"
    /\ Idle

\* C7: when the append to the log file fails, the webhook is answered 200
\* "success" all the same, and last_event, timestamp, event_count and the
\* history are what they are when the append succeeds.
C7_LogFileFailureSwallowed ==
    /\ log_file_error => Answered200
    /\ Answered200 /\ Idle =>
        /\ reply.body.status = "success"
        /\ reply.body.timestamp = accepted[Len(accepted)].timestamp
        /\ latest_webhook_data =
               [last_event |-> accepted[Len(accepted)].data,
                timestamp |-> accepted[Len(accepted)].timestamp,
                event_count |-> Len(accepted)]
        /\ event_history = LastN(accepted, Min(Len(accepted), 10))

C7_Witness ==
    /\ log_file_error
    /\ Answered200
    /\ Len(accepted) = 11
    /\ Len(event_history) = 10

\* C8: every POST /webhook taken up is answered, exactly once, with 200
\* "success" or 500 "error", whatever its body and whatever fails inside.
C8_AlwaysAnswered ==
    /\ \A t \in Slots : pc[t] # "idle" ~> pc[t] = "idle"
    /\ [](reply.op = "webhook" =>
              \/ reply.code = 200 /\ reply.body.status = "success"
              \/ reply.code = 500 /\ reply.body.status = "error")
    /\ [][\A t \in Slots :
             /\ pc[t] # "idle" /\ pc'[t] = "idle" => reply'.op = "webhook"
             /\ pc[t] # "idle" /\ pc'[t] # "idle" => reply'.op # "webhook"
             /\ pc[t] = "idle" /\ pc'[t] # "idle" => reply'.op # "webhook"]_vars

C8_Witness ==
    /\ Answered500
    /\ reply.body.status = "error"
    /\ Len(accepted) = 11

\* C9: GET /, GET /status, GET /history and GET /health leave last_event,
\* timestamp, event_count and the History Queue as they are; only the steps
\* of a POST /webhook in hand change them.
C9_OnlyIngestionMutates ==
    [][/\ reply'.op \in {"home", "status", "history", "health"} => UNCHANGED shared
       /\ shared' # shared =>
              \E t \in Slots : pc[t] \notin {"idle", "except"} /\ pc'[t] # pc[t]]_vars

C9_Witness ==
    /\ reply.op = "history"
    /\ Len(event_history) = 10
    /\ latest_webhook_data.event_count = 12

\* C10: the same payload delivered k times and answered 200 each time counts
\* k times in event_count and fills k entries of the history (as far as the
\* 10 entries reach), it is not taken for one.
C10_NoDeduplication ==
    Idle =>
        \A k \in 1..Len(accepted) :
            (\A i \in 1..k : accepted[Len(accepted) - i + 1].data
                               = accepted[Len(accepted)].data) =>
                /\ latest_webhook_data.event_count = Len(accepted)
                /\ Len(event_history) >= Min(k, 10)
                /\ \A i \in 1..Min(k, 10) :
                       event_history[Len(event_history) - i + 1].data
                           = accepted[Len(accepted)].data

\* The same event twice in a row, both answered 200.
C10_Witness ==
    /\ Idle
    /\ Len(accepted) >= 2
    /\ accepted[Len(accepted)].data = accepted[Len(accepted) - 1].data
    /\ Answered200


\* C11: GET /health answers 200 with status "healthy" in every state, before
\* any webhook, after webhooks answered 200 and after webhooks answered 500;
\* its answer is a function of the clock alone.
C11_HealthIndependent ==
    [][reply'.op = "health" =>
           /\ reply'.code = 200
           /\ reply'.body = [status |-> "healthy",
                             timestamp |-> IsoFormat(clock'),
                             uptime_check |-> "OK"]
           /\ UNCHANGED shared]_vars

\* GET /health with no webhook answered 200 yet and the clock moved on.
C11_Witness ==
    /\ reply.op = "health"
    /\ reply.code = 200
    /\ accepted = <<>>
    /\ latest_webhook_data.last_event = None
    /\ clock = 1


\* C12: with webhooks handled at the same time the read and the write of
\* `event_count += 1` interleave; there is a run after which every request
\* was answered 200 and event_count is below the number of 200 responses.
\* The count is never above that number and falls short of it by no more
\* than the number of requests that were taken up while another was in hand.
C12_LostUpdateOnCounter ==
    Idle =>
        /\ latest_webhook_data.event_count <= Len(accepted)
        /\ latest_webhook_data.event_count >= Len(accepted) - traffic.overlapped

\* Two webhooks answered 200, one counted.
C12_Witness ==
    /\ Idle
    /\ Len(accepted) = 2
    /\ latest_webhook_data.event_count = 1
    /\ Answered200


HistoryInTimestampOrder ==
    \A i \in 1..(Len(event_history) - 1) :
        TextLeq(event_history[i].timestamp, event_history[i + 1].timestamp)

\* C13: with webhooks handled at the same time there is a run in which an
\* entry whose timestamp was taken earlier is stored after an entry whose
\* timestamp was taken later; as long as requests are handled one after the
\* other the history is in non-decreasing timestamp order.
C13_HistoryOrder ==
    traffic.overlapped = 0 => HistoryInTimestampOrder

\* The later timestamp is stored first.
C13_Witness ==
    /\ Len(event_history) = 2
    /\ event_history[1].timestamp = IsoFormat(1)
    /\ event_history[2].timestamp = IsoFormat(0)
    /\ ~HistoryInTimestampOrder


\* The webhooks whose updates are all applied: those answered 200 and those
\* in hand that are past the last statement that writes shared state.
Applied ==
    {accepted[i] : i \in 1..Len(accepted)}
    \cup {[timestamp |-> timestamp[t], data |-> data[t]] :
            t \in {u \in Slots : pc[u] = "acknowledge"}}

\* C14: GET /status and GET /history see no partial update, also while a
\* POST /webhook runs: latest_event, timestamp and total_events_received of a
\* /status response come from one webhook whose updates are all applied, and
\* a /history response shows the queue before or after a whole
\* append-and-evict.
C14_ConsistentSnapshot ==
    /\ reply.op = "status" /\ "latest_event" \in DOMAIN reply.body =>
           /\ \E w \in Applied :
                  /\ w.data = reply.body.latest_event
                  /\ w.timestamp = reply.body.timestamp
           /\ reply.body.total_events_received >= 1
    /\ reply.op = "history" => reply.body.total_events <= 10


\* C15: a POST /webhook answered 500 (body no JSON, JSON null, or a JSON
\* value that is no object) leaves last_event, timestamp, event_count and the
\* History Queue as they were: a rejected body takes the handler straight to
\* its except clause and no step on that path writes shared state.  And a
\* request is answered 200 only with all four updates applied.
C15_FailedIngestionAllOrNothing ==
    /\ [](\A t \in Slots : request[t] \in RejectedBodies => pc[t] = "except")
    /\ [](Answered200 /\ Idle =>
              /\ latest_webhook_data.last_event = accepted[Len(accepted)].data
              /\ latest_webhook_data.timestamp = accepted[Len(accepted)].timestamp
              /\ latest_webhook_data.event_count >= 1
              /\ event_history # <<>>
              /\ event_history[Len(event_history)] = accepted[Len(accepted)])
    /\ [][/\ \A t \in Slots :
                 pc[t] = "except" \/ pc'[t] = "except" => UNCHANGED shared
          /\ reply'.op = "webhook" /\ reply'.code = 500 =>
                 \E t \in Slots : pc[t] = "except" /\ pc'[t] = "idle"]_vars

\* A JSON value that is no object was answered 500 with the history full.
C15_Witness ==
    /\ Answered500
    /\ reply.body.message = "AttributeError"
    /\ Len(event_history) = 10
    /\ latest_webhook_data.event_count = 11
    /\ latest_webhook_data.last_event = Object(11)


\* The requests that have appended and not yet finished their eviction.
Evicting == {t \in Slots : pc[t] \in {"check_length", "pop"}}

\* C16: however the appends, length checks and pops of webhooks handled at
\* the same time interleave, the History Queue holds at most 10 entries once
\* no webhook is in hand: the entries above 10 are never more than the
\* requests that have appended and not finished their eviction check.
C16_QuiescentCapacity ==
    /\ Len(event_history) - 10 <= Cardinality(Evicting)
    /\ Idle => Len(event_history) <= 10

\* Two requests have appended to a full queue and neither has evicted.
C16_Witness ==
    /\ Len(event_history) = 12
    /\ Cardinality(Evicting) = 2


\* C17: however webhooks handled at the same time interleave, once none is
\* in hand the History Queue holds exactly min(N, 10) entries, N the number
\* of webhooks answered 200, and the eviction never removes an entry from a
\* queue of 10 or fewer.
C17_NoOverEviction ==
    /\ Idle => Len(event_history) = Min(Len(accepted), 10)
    /\ \A t \in Slots : pc[t] = "pop" => Len(event_history) > 10


\* C18: whenever no webhook is in hand and at least one was answered 200,
\* the newest History Queue entry carries the data of last_event and the
\* timestamp of Latest State, also after webhooks handled at the same time.
C18_LatestAgreesWithHistoryTail ==
    Idle /\ accepted # <<>> =>
        /\ event_history # <<>>
        /\ event_history[Len(event_history)].data = latest_webhook_data.last_event
        /\ event_history[Len(event_history)].timestamp = latest_webhook_data.timestamp


\* C19: in every state last_event is absent exactly when event_count is 0,
\* exactly when timestamp is absent, exactly when the History Queue is empty;
\* GET /status answers "No webhooks received yet" exactly when no webhook was
\* ever answered 200 and never reports a latest_event with
\* total_events_received = 0.
C19_EmptinessCoherent ==
    /\ (latest_webhook_data.last_event = None)
           <=> (latest_webhook_data.event_count = 0)
    /\ (latest_webhook_data.event_count = 0)
           <=> (latest_webhook_data.timestamp = None)
    /\ (latest_webhook_data.timestamp = None) <=> (event_history = <<>>)
    /\ reply.op = "status" =>
           /\ ("message" \in DOMAIN reply.body) <=> (accepted = <<>>)
           /\ "latest_event" \in DOMAIN reply.body =>
                  reply.body.total_events_received # 0

====
